---- MODULE Spec2Model ----
(***************************************************************************)
(* Motzkin paths of a given length and minimum width (src/motzkin.py):     *)
(*   motzkinlengthk(length, width)    counts them, memoised in a dict that *)
(*                                    is the function's default argument;  *)
(*   motzkin_sequences(length, minwidth)  generates them lazily.           *)
(* A path is a sequence of the one-character strings ".", "(" and ")".     *)
(***************************************************************************)
EXTENDS Integers, Sequences, FiniteSets, TLC

\* ------------------------------------------------------------- bounds ----
MaxLen == 5            \* largest length passed to motzkinlengthk
MaxWidth == 2          \* largest width passed to either function
NegArgs == 2           \* arguments go down to -NegArgs
MaxEnumLen == 3        \* largest length enumerated between the counts
MaxGenLen == 8         \* largest length of a generator that is stepped
MaxGenWidth == 3       \* largest minwidth of a generator that is stepped
MaxPaths == 51         \* a stepped generator has at most this many paths
RecursionLimit == 12   \* depth at which the interpreter raises RecursionError

Lengths == (-NegArgs)..MaxLen
EnumLengths == (-NegArgs)..MaxEnumLen
Widths == (-NegArgs)..MaxWidth
Gens == {1, 2}

VARIABLES memoize, ret, gens
vars == <<memoize, ret, gens>>

\* ------------------------------------------------ motzkinlengthk --------
\* The default argument memoize={0: 1}: one dict for the whole process.
InitMemo == [k \in {0} |-> 1]

InMemoBaseOnly(length, memo) == length = 0 /\ length \in DOMAIN memo
\* `length not in memoize` (negated)
InMemo(length, memo) == length \in DOMAIN memo

\* memoize[length] = value
Store(memo, length, value) ==
    [k \in DOMAIN memo \cup {length} |-> IF k = length THEN value ELSE memo[k]]

\* range(width, (length-2)+1): from lo up to hi, both included
CountRange(length, width) == [lo |-> width, hi |-> length - 2]

RECURSIVE motzkinlengthk(_, _, _, _)
RECURSIVE CountLoop(_, _, _, _, _, _)

\* One call frame.  The result carries the dict as the call left it; err is
\* TRUE when the call ended in RecursionError (the dict keeps whatever had
\* been stored before the exception).
motzkinlengthk(length, width, memo, depth) ==
    IF depth > RecursionLimit
    THEN [err |-> TRUE, val |-> 0, memo |-> memo]
    ELSE IF InMemo(length, memo)
    THEN [err |-> FALSE, val |-> memo[length], memo |-> memo]
    ELSE LET sequence1shorter == motzkinlengthk(length - 1, width, memo, depth + 1)
         IN  IF sequence1shorter.err
             THEN sequence1shorter
             ELSE LET loop == CountLoop(length, width,
                                        CountRange(length, width).lo,
                                        sequence1shorter.memo, 0, depth)
                      total == sequence1shorter.val + loop.val
                  IN  IF loop.err
                      THEN loop
                      ELSE [err |-> FALSE, val |-> total,
                            memo |-> Store(loop.memo, length, total)]

\* The for loop, from length_inside_first_set = inner on, sequencecount = acc.
CountLoop(length, width, inner, memo, acc, depth) ==
    IF inner > CountRange(length, width).hi
    THEN [err |-> FALSE, val |-> acc, memo |-> memo]
    ELSE LET stuff_in_first_set == motzkinlengthk(inner, width, memo, depth + 1)
         IN  IF stuff_in_first_set.err
             THEN stuff_in_first_set
             ELSE LET stuff_after_first_set ==
                          motzkinlengthk(length - 2 - inner, width,
                                         stuff_in_first_set.memo, depth + 1)
                  IN  IF stuff_after_first_set.err
                      THEN stuff_after_first_set
                      ELSE CountLoop(length, width, inner + 1,
                                     stuff_after_first_set.memo,
                                     acc + stuff_in_first_set.val
                                           * stuff_after_first_set.val,
                                     depth)

\* ------------------------------------------------ motzkin_sequences -----
BaseYieldNothing == << >>
\* length == 0: yield ''
BaseYield == << <<>> >>

\* '.' + seq
DotBefore(seq) == <<".">> \o seq

FormatDropAfter(inside, after) == <<"(">> \o inside \o <<")">>
\* '({inside}){after}'.format(inside=inside, after=after)
Format(inside, after) == <<"(">> \o inside \o <<")">> \o after

InsideRangeFromZero(length, minwidth) == [lo |-> 0, hi |-> length - 2]
\* range(minwidth, length-2+1): from lo up to hi, both included
InsideRange(length, minwidth) == [lo |-> minwidth, hi |-> length - 2]

RECURSIVE Flatten(_)
Flatten(ss) == IF ss = << >> THEN << >> ELSE Head(ss) \o Flatten(Tail(ss))

ProductsAfterOuter(insides, afters) ==
    Flatten([j \in 1..Len(afters) |->
                [i \in 1..Len(insides) |-> Format(insides[i], afters[j])]])
\* for inside in stuff_inside_first_set: for after in stuff_after_first_set
Products(insides, afters) ==
    Flatten([i \in 1..Len(insides) |->
                [j \in 1..Len(afters) |-> Format(insides[i], afters[j])]])

RECURSIVE motzkin_sequences(_, _, _)
RECURSIVE ParenLoop(_, _, _, _)

\* Everything one generator yields, in order, when it is consumed to the end;
\* err is TRUE when the consumption ended in RecursionError, out is what had
\* been yielded until then.
motzkin_sequences(length, minwidth, depth) ==
    IF depth > RecursionLimit
    THEN [err |-> TRUE, out |-> << >>]
    ELSE IF length = 0
    THEN [err |-> FALSE, out |-> BaseYield]
    ELSE LET prev == motzkin_sequences(length - 1, minwidth, depth + 1)
             dot_before_prev_possibilities ==
                 [i \in 1..Len(prev.out) |-> DotBefore(prev.out[i])]
         IN  IF prev.err
             THEN [err |-> TRUE, out |-> dot_before_prev_possibilities]
             ELSE LET paren == ParenLoop(length, minwidth,
                                          InsideRange(length, minwidth).lo, depth)
                  IN  [err |-> paren.err,
                       out |-> dot_before_prev_possibilities \o paren.out]

\* The for loop over length_inside_first_set, from inner on.  The two list
\* comprehensions consume their generators whole before anything is yielded.
ParenLoop(length, minwidth, inner, depth) ==
    IF inner > InsideRange(length, minwidth).hi
    THEN [err |-> FALSE, out |-> << >>]
    ELSE LET stuff_inside_first_set == motzkin_sequences(inner, minwidth, depth + 1)
         IN  IF stuff_inside_first_set.err
             THEN [err |-> TRUE, out |-> << >>]
             ELSE LET stuff_after_first_set ==
                          motzkin_sequences(length - 2 - inner, minwidth, depth + 1)
                  IN  IF stuff_after_first_set.err
                      THEN [err |-> TRUE, out |-> << >>]
                      ELSE LET rest == ParenLoop(length, minwidth, inner + 1, depth)
                           IN  [err |-> rest.err,
                                out |-> Products(stuff_inside_first_set.out,
                                                 stuff_after_first_set.out)
                                        \o rest.out]

\* ------------------------------------------------ calls -----------------
NoRet == [op |-> "none", length |-> 0, width |-> 0, status |-> "ok",
          value |-> 0, out |-> << >>, hit |-> FALSE, changed |-> FALSE]

NoGen == [status |-> "none", length |-> 0, minwidth |-> 0,
          frames |-> << >>, out |-> << >>]

Init ==
    /\ memoize = InitMemo
    /\ ret = NoRet
    /\ gens = [g \in Gens |-> NoGen]

\* A caller evaluates motzkinlengthk(length, width).
CountCall ==
    \E length \in Lengths, width \in Widths :
        LET r == motzkinlengthk(length, width, memoize, 0)
        IN  /\ memoize' = r.memo
            /\ ret' = [op |-> "count", length |-> length, width |-> width,
                       status |-> IF r.err THEN "RecursionError" ELSE "ok",
                       value |-> r.val, out |-> << >>,
                       hit |-> length \in DOMAIN memoize,
                       changed |-> r.memo # memoize]
            /\ UNCHANGED gens

\* A caller evaluates [sequence for sequence in motzkin_sequences(length, minwidth)].
EnumerateCall ==
    \E length \in EnumLengths, minwidth \in Widths :
        LET r == motzkin_sequences(length, minwidth, 0)
        IN  /\ ret' = [op |-> "enumerate", length |-> length, width |-> minwidth,
                       status |-> IF r.err THEN "RecursionError" ELSE "ok",
                       value |-> 0, out |-> r.out, hit |-> FALSE,
                       changed |-> FALSE]
            /\ UNCHANGED <<memoize, gens>>

Next == CountCall \/ EnumerateCall

Spec == Init /\ [][Next]_vars

\* ------------------------------------------------ generator objects -----
\* A generator object is a chain of suspended frames: the frame for length k
\* (kept at index k+1) pulls from the frame for length k-1 through
\* dot_before_prev_possibilities.  A frame is at the start of the body
\* ("start"), suspended at `yield ''` ("base"), at `yield sequence` of the dot
\* loop ("dot"), at `yield sequence` of the nested loops ("paren", with
\* length_inside_first_set = inner and the positions i, j reached in the two
\* lists), or it has returned ("done").  The two lists are a function of
\* (inner, minwidth), so a frame keeps the positions and not the lists.
NewFrame == [pc |-> "start", inner |-> 0, i |-> 1, j |-> 1]

Yield(v) == [kind |-> "yield", val |-> v]
StopIteration == [kind |-> "stop", val |-> << >>]
RecursionError == [kind |-> "error", val |-> << >>]

RECURSIVE GenNext(_, _, _)
\* next() on the frame for length k: the frames afterwards, and what came out.
GenNext(frames, k, minwidth) ==
    LET f == frames[k + 1]
    IN  CASE f.pc = "start" ->
                IF k = 0
                THEN [frames |-> [frames EXCEPT ![k + 1].pc = "base"],
                      res |-> Yield(BaseYield[1])]
                ELSE GenNext([frames EXCEPT ![k + 1].pc = "dot"], k, minwidth)
          [] f.pc = "base" ->
                [frames |-> [frames EXCEPT ![k + 1].pc = "done"],
                 res |-> StopIteration]
          [] f.pc = "dot" ->
                LET sub == GenNext(frames, k - 1, minwidth)
                IN  IF sub.res.kind = "yield"
                    THEN [frames |-> sub.frames,
                          res |-> Yield(DotBefore(sub.res.val))]
                    ELSE IF sub.res.kind = "error"
                    THEN [frames |-> [sub.frames EXCEPT ![k + 1].pc = "done"],
                          res |-> RecursionError]
                    ELSE GenNext([sub.frames EXCEPT ![k + 1] =
                                     [pc |-> "paren",
                                      inner |-> InsideRange(k, minwidth).lo,
                                      i |-> 1, j |-> 1]],
                                 k, minwidth)
          [] f.pc = "paren" ->
                IF f.inner > InsideRange(k, minwidth).hi
                THEN [frames |-> [frames EXCEPT ![k + 1].pc = "done"],
                      res |-> StopIteration]
                ELSE LET stuff_inside_first_set ==
                             motzkin_sequences(f.inner, minwidth, 0)
                         stuff_after_first_set ==
                             motzkin_sequences(k - 2 - f.inner, minwidth, 0)
                     IN  IF stuff_inside_first_set.err \/ stuff_after_first_set.err
                         THEN [frames |-> [frames EXCEPT ![k + 1].pc = "done"],
                               res |-> RecursionError]
                         ELSE IF f.i > Len(stuff_inside_first_set.out)
                         THEN GenNext([frames EXCEPT ![k + 1] =
                                          [pc |-> "paren", inner |-> f.inner + 1,
                                           i |-> 1, j |-> 1]],
                                      k, minwidth)
                         ELSE IF f.j > Len(stuff_after_first_set.out)
                         THEN GenNext([frames EXCEPT ![k + 1] =
                                          [pc |-> "paren", inner |-> f.inner,
                                           i |-> f.i + 1, j |-> 1]],
                                      k, minwidth)
                         ELSE [frames |-> [frames EXCEPT ![k + 1].j = f.j + 1],
                               res |-> Yield(Format(stuff_inside_first_set.out[f.i],
                                                    stuff_after_first_set.out[f.j]))]
          [] OTHER -> [frames |-> frames, res |-> StopIteration]

\* The arguments of the generators that are stepped.
GenArgs ==
    {a \in (0..MaxGenLen) \X (0..MaxGenWidth) :
        motzkinlengthk(a[1], a[2], InitMemo, 0).val <= MaxPaths}

\* motzkin_sequences(length, minwidth) called: a generator object of its own.
NewGen(length, minwidth) ==
    [status |-> "active", length |-> length, minwidth |-> minwidth,
     frames |-> [k \in 1..(length + 1) |-> NewFrame], out |-> << >>]

SetGenShared(gs, g, s) ==
    [h \in DOMAIN gs |->
        IF h = g THEN s
        ELSE IF /\ gs[h].status = "active" /\ s.status = "active"
                /\ gs[h].length = s.length /\ gs[h].minwidth = s.minwidth
             THEN [gs[h] EXCEPT !.frames = s.frames]
             ELSE gs[h]]
\* The frames and loop variables are local to the generator object g.
SetGen(gs, g, s) == [gs EXCEPT ![g] = s]

\* my_motzkin = motzkin_sequences(length, minwidth).  Two live generators are
\* given the same arguments.
Create(g) ==
    \E a \in GenArgs :
        /\ gens[g].status # "active"
        /\ \A h \in Gens \ {g} :
              \/ gens[h].status = "none"
              \/ gens[h].length = a[1] /\ gens[h].minwidth = a[2]
        /\ gens' = SetGen(gens, g, NewGen(a[1], a[2]))
        /\ UNCHANGED <<memoize, ret>>

\* next(my_motzkin)
NextValue(g) ==
    /\ gens[g].status = "active"
    /\ LET r == GenNext(gens[g].frames, gens[g].length, gens[g].minwidth)
       IN  gens' = SetGen(gens, g,
                IF r.res.kind = "yield"
                THEN [gens[g] EXCEPT !.frames = r.frames,
                                     !.out = Append(@, r.res.val)]
                ELSE [gens[g] EXCEPT !.frames = << >>,
                                     !.status = IF r.res.kind = "stop"
                                                THEN "done" ELSE "error"])
    /\ UNCHANGED <<memoize, ret>>

\* [sequence for sequence in my_motzkin] on a generator not yet started
Collect(g) ==
    /\ gens[g].status = "active"
    /\ gens[g].out = << >>
    /\ LET r == motzkin_sequences(gens[g].length, gens[g].minwidth, 0)
       IN  gens' = SetGen(gens, g,
                [gens[g] EXCEPT !.frames = << >>, !.out = r.out,
                                !.status = IF r.err THEN "error" ELSE "done"])
    /\ UNCHANGED <<memoize, ret>>

\* The consumer stops pulling: the generator is closed or dropped.
Close(g) ==
    /\ gens[g].status = "active"
    /\ gens' = SetGen(gens, g, [gens[g] EXCEPT !.frames = << >>,
                                               !.status = "closed"])
    /\ UNCHANGED <<memoize, ret>>

NextGen == \E g \in Gens : Create(g) \/ NextValue(g) \/ Collect(g) \/ Close(g)

SpecGen == Init /\ [][NextGen]_vars

TypeOK == /\ 0 \in DOMAIN memoize
          /\ ret.op \in {"none", "count", "enumerate"}
          /\ \A g \in Gens : gens[g].status \in {"none", "active", "done", "closed", "error"}

\* ------------------------------------------------ path vocabulary -------
\* Opens minus closes in the first n symbols of s.
Balance(s, n) ==
    Cardinality({p \in 1..n : s[p] = "("}) - Cardinality({p \in 1..n : s[p] = ")"})

\* The "(" at p and the ")" at q are a matched pair of s.
Matched(s, p, q) ==
    /\ p < q /\ s[p] = "(" /\ s[q] = ")"
    /\ Balance(s, q) = Balance(s, p - 1)
    /\ \A r \in p..(q - 1) : Balance(s, r) > Balance(s, p - 1)

ValidPath(s, length, minwidth) ==
    /\ Len(s) = length
    /\ \A p \in 1..Len(s) : s[p] \in {".", "(", ")"}
    /\ \A n \in 1..Len(s) : Balance(s, n) >= 0
    /\ Balance(s, Len(s)) = 0
    /\ \A p \in 1..Len(s) : \A q \in (p + 1)..Len(s) :
          Matched(s, p, q) => q - p - 1 >= minwidth

IsPrefix(s, t) == Len(s) <= Len(t) /\ \A i \in 1..Len(s) : s[i] = t[i]

\* For a path that starts with "(": the sub-path its first pair encloses;
\* for any other path, a value no sub-path equals.
InsidePart(s) ==
    IF s # << >> /\ s[1] = "("
    THEN IF \E q \in 2..Len(s) : Matched(s, 1, q)
         THEN SubSeq(s, 2, (CHOOSE q \in 2..Len(s) : Matched(s, 1, q)) - 1)
         ELSE <<"unmatched">>
    ELSE <<"dot">>

Started(g) == gens[g].status \in {"active", "done", "closed", "error"}

\* ------------------------------------------------ claims ----------------
\* C1: whatever calls came before, count(length, minwidth) with
\* 0 <= minwidth <= length returns the number of strings that
\* enumerate(length, minwidth) produces.
C1_CardinalityConsistency ==
    (ret.op = "count" /\ ret.length >= 0 /\ ret.width \in 0..ret.length)
    => /\ ret.status = "ok"
       /\ ret.value = Len(motzkin_sequences(ret.length, ret.width, 0).out)

\* C2: the value count(length, w) returns after any sequence of count calls is
\* the value it returns as the first call of a fresh process (cache entries
\* of different widths never collide).
C2_WidthScopedCache ==
    (ret.op = "count" /\ ret.length >= 0 /\ ret.width >= 0)
    => /\ ret.status = "ok"
       /\ ret.value = motzkinlengthk(ret.length, ret.width, InitMemo, 0).val

\* C3: count or enumerate with a negative length or width fails with
\* InvalidArgument, having produced no path and left the cache unchanged.
C3_InvalidArgument ==
    (ret.op \in {"count", "enumerate"} /\ (ret.length < 0 \/ ret.width < 0))
    => /\ ret.status = "InvalidArgument"
       /\ ret.out = << >>
       /\ ~ret.changed

\* C4: every string a generator for length >= 0 and minwidth >= 0 has
\* produced has `length` symbols from {".", "(", ")"}, never more closes than
\* opens in a prefix, as many closes as opens, and at least minwidth symbols
\* between the marks of every matched pair.
C4_Validity ==
    \A g \in Gens :
        Started(g) =>
            \A i \in 1..Len(gens[g].out) :
                ValidPath(gens[g].out[i], gens[g].length, gens[g].minwidth)

C4_Witness ==
    /\ gens[1].status = "done" /\ gens[1].length = 8 /\ gens[1].minwidth = 3
    /\ \E i \in 1..Len(gens[1].out) :
          gens[1].out[i] = <<"(", ".", "(", ".", ".", ".", ")", ")">>

\* C5: the strings one generator has produced are pairwise distinct.
C5_Uniqueness ==
    \A g \in Gens :
        Started(g) =>
            \A i \in 1..Len(gens[g].out) : \A j \in (i + 1)..Len(gens[g].out) :
                gens[g].out[i] # gens[g].out[j]

C5_Witness ==
    /\ gens[1].status = "done" /\ gens[1].length = 8 /\ gens[1].minwidth = 3
    /\ Len(gens[1].out) = 16

\* C8: in what a generator for length >= 1 has produced, no string starting
\* with "." comes after one starting with "("; along the strings starting with
\* "(" the length of the sub-path inside the first pair never decreases; and
\* the strings with the same sub-path inside the first pair are consecutive.
C8_ProductionOrder ==
    \A g \in Gens :
        (Started(g) /\ gens[g].length >= 1) =>
            LET s == gens[g].out
                ins == [i \in 1..Len(s) |-> InsidePart(s[i])]
            IN  /\ \A i \in 1..(Len(s) - 1) :
                      s[i][1] = "(" => /\ s[i + 1][1] = "("
                                       /\ Len(ins[i]) <= Len(ins[i + 1])
                /\ \A i \in 1..Len(s) : \A k \in (i + 2)..Len(s) :
                      (s[i][1] = "(" /\ ins[i] = ins[k]) => ins[k - 1] = ins[i]

\* Two inside paths of the same length, each combined with two after paths.
C8_Witness ==
    /\ gens[1].status = "done" /\ gens[1].length = 6 /\ gens[1].minwidth = 0
    /\ \E i \in 1..(Len(gens[1].out) - 3) :
          LET s == gens[1].out
          IN  /\ InsidePart(s[i]) = <<".", ".">>
              /\ InsidePart(s[i + 1]) = <<".", ".">>
              /\ InsidePart(s[i + 2]) = <<"(", ")">>
              /\ InsidePart(s[i + 3]) = <<"(", ")">>

\* C9: two generators made with the same arguments are independent: however
\* their next() calls interleave, and whether or not the other one is stopped
\* early, what each has produced is an initial part of the full list in its
\* order, and a generator consumed to its end has produced the full list.
C9_IndependentIteration ==
    \A g \in Gens :
        Started(g) =>
            LET full == motzkin_sequences(gens[g].length, gens[g].minwidth, 0).out
            IN  /\ gens[g].status # "error"
                /\ IsPrefix(gens[g].out, full)
                /\ gens[g].status = "done" => gens[g].out = full

C9_Witness ==
    /\ gens[1].status = "done" /\ gens[2].status = "closed"
    /\ gens[1].length = gens[2].length /\ gens[1].minwidth = gens[2].minwidth
    /\ Len(gens[1].out) >= 9
    /\ Len(gens[2].out) \in 2..(Len(gens[1].out) - 1)

\* C6: count(length, w) with length >= 1, w >= 0 returns count(length-1, w)
\* plus the sum over inner in w..length-2 of
\* count(inner, w) * count(length-2-inner, w), each term being the value
\* count returns for those arguments.
CountNow(length, width) == motzkinlengthk(length, width, memoize, 0).val

RECURSIVE SumTerms(_, _, _)
SumTerms(length, width, inner) ==
    IF inner > length - 2 THEN 0
    ELSE CountNow(inner, width) * CountNow(length - 2 - inner, width)
         + SumTerms(length, width, inner + 1)

C6_CountingRecurrence ==
    (ret.op = "count" /\ ret.length >= 1 /\ ret.width >= 0)
    => ret.value = CountNow(ret.length - 1, ret.width)
                   + SumTerms(ret.length, ret.width, ret.width)

\* C7: after any earlier calls, count(0, w) with w >= 0 returns 1 and
\* enumerate(0, w) produces the empty string and nothing else.
C7_BaseCase ==
    /\ (ret.op = "count" /\ ret.length = 0 /\ ret.width >= 0)
       => (ret.status = "ok" /\ ret.value = 1)
    /\ (ret.op = "enumerate" /\ ret.length = 0 /\ ret.width >= 0)
       => (ret.status = "ok" /\ ret.out = << <<>> >>)

C7_Witness ==
    /\ ret.op = "enumerate" /\ ret.length = 0 /\ ret.width = 2
    /\ Cardinality(DOMAIN memoize) >= 4

\* C10: a cache entry, once present, is never changed or removed and the
\* entry for length 0 is 1; count(length, width) with length, width >= 0 adds
\* entries only for lengths in 1..length and none when length was cached;
\* enumerate leaves the cache as it was.
C10_WriteOnceCache ==
    [][ /\ \A k \in DOMAIN memoize : k \in DOMAIN memoize' /\ memoize'[k] = memoize[k]
        /\ memoize'[0] = 1
        /\ (ret'.op = "count" /\ ret'.length >= 0 /\ ret'.width >= 0)
           => /\ (DOMAIN memoize') \ (DOMAIN memoize) \subseteq 1..ret'.length
              /\ ret'.length \in DOMAIN memoize => memoize' = memoize
        /\ ret'.op = "enumerate" => memoize' = memoize ]_vars

C10_Witness ==
    /\ ret.op = "count" /\ ret.hit /\ ret.length >= 3 /\ ret.width = 1
    /\ ret.value # motzkinlengthk(ret.length, ret.width, InitMemo, 0).val
====
